---- MODULE Spec2Model ----
(***************************************************************************)
(* Model of src/recent-projects.tsx: the Raycast command that lists the    *)
(* recent projects of the Windsurf editor.                                 *)
(*                                                                         *)
(* JavaScript values are records with a type tag.  A string is a sequence  *)
(* of one-character strings, so that String.prototype.split is computed    *)
(* character by character.  An object is a sequence of key/value pairs in  *)
(* document order.                                                         *)
(***************************************************************************)
EXTENDS Integers, Sequences, FiniteSets, TLC

VARIABLES
    file,            \* the storage file on disk (owned by the editor)
    recentProjects,  \* useState<RecentProject[]>
    isLoading,       \* useState<boolean>
    commits,         \* number of values the invocation state has taken
    effectRuns,      \* number of times the mount effect has run
    crashed,         \* an exception escaped getRecentProjects into the effect
    launches,        \* the calls of openProjectInWindsurf, in call order
    windowOpen,      \* the Raycast main window is showing
    clipboard        \* the system clipboard as written by this command

vars == <<file, recentProjects, isLoading, commits, effectRuns, crashed,
          launches, windowOpen, clipboard>>

-----------------------------------------------------------------------------
(* Bounds of the model *)

\* longest "Open Recent" submenu the input documents hold
MaxItems == 2

\* number of openProjectInWindsurf calls in one run of the command
MaxLaunches == 2

-----------------------------------------------------------------------------
(* JavaScript values *)

JsVal(t, s, n, o, a) == [t |-> t, s |-> s, n |-> n, o |-> o, a |-> a]

Undefined == JsVal("undefined", <<>>, 0, <<>>, <<>>)
Null      == JsVal("null", <<>>, 0, <<>>, <<>>)
Num(n)    == JsVal("number", <<>>, n, <<>>, <<>>)
Str(s)    == JsVal("string", s, 0, <<>>, <<>>)
Obj(o)    == JsVal("object", <<>>, 0, o, <<>>)
Arr(a)    == JsVal("array", <<>>, 0, <<>>, a)
KV(k, v)  == [k |-> k, v |-> v]

\* x == null || x === undefined
IsNullish(v) == v.t \in {"undefined", "null"}

\* ToBoolean(v), as used by ! and &&
Truthy(v) ==
    CASE v.t = "undefined" -> FALSE
      [] v.t = "null"      -> FALSE
      [] v.t = "number"    -> v.n # 0
      [] v.t = "string"    -> v.s # <<>>
      [] OTHER             -> TRUE

\* typeof v
TypeOf(v) ==
    CASE v.t = "undefined" -> "undefined"
      [] v.t = "number"    -> "number"
      [] v.t = "string"    -> "string"
      [] OTHER             -> "object"

RECURSIVE Lookup(_, _, _)
Lookup(o, key, i) ==
    IF i = 0 THEN Undefined
    ELSE IF o[i].k = key THEN o[i].v
    ELSE Lookup(o, key, i - 1)

\* v.key for a v that is neither null nor undefined.  Only the data keys of
\* the storage document are read this way; no primitive and no array has them.
Get(v, key) == IF v.t = "object" THEN Lookup(v.o, key, Len(v.o)) ELSE Undefined

\* v?.key
OptGet(v, key) == IF IsNullish(v) THEN Undefined ELSE Get(v, key)

\* v === "literal"
StrictEq(v, lit) == v.t = "string" /\ v.s = lit

RECURSIVE SplitAcc(_, _, _, _, _)
SplitAcc(s, sep, i, cur, acc) ==
    IF i > Len(s) THEN Append(acc, cur)
    ELSE IF s[i] = sep THEN SplitAcc(s, sep, i + 1, <<>>, Append(acc, cur))
    ELSE SplitAcc(s, sep, i + 1, Append(cur, s[i]), acc)

\* s.split(sep) for a one-character separator
Split(s, sep) == SplitAcc(s, sep, 1, <<>>, <<>>)

\* arr.shift() in place of arr.pop(): the first element
PopFirst(arr) == arr[1]

\* arr.pop() of a non-empty array: its last element
Pop(arr) == arr[Len(arr)]

\* x || ''
OrEmpty(s) == IF s # <<>> THEN s ELSE <<>>

-----------------------------------------------------------------------------
(* String literals of the source *)

RecentMenuId == <<"s", "u", "b", "m", "e", "n", "u", "i", "t", "e", "m", ".", "M", "e", "n", "u", "b", "a", "r", "R", "e", "c", "e", "n", "t", "M", "e", "n", "u">>
RecentMenuLabel == <<"O", "p", "e", "n", " ", "&", "&", "R", "e", "c", "e", "n", "t">>
OpenRecentFolderId == <<"o", "p", "e", "n", "R", "e", "c", "e", "n", "t", "F", "o", "l", "d", "e", "r">>

-----------------------------------------------------------------------------
(* getRecentProjects *)

Return(v) == [thrown |-> FALSE, value |-> v]
Throw     == [thrown |-> TRUE, value |-> <<>>]

\* fs.existsSync(STORAGE_FILE_PATH())
existsSync(f) == f.kind # "absent"

\* JSON.parse(fs.readFileSync(STORAGE_FILE_PATH(), "utf8")): readFileSync
\* throws on a file it cannot read, JSON.parse on text that is not JSON.
ParseStorage(f) ==
    IF f.kind = "json" THEN Return(f.doc) ELSE Throw

\* a find predicate that looks at the id alone
IsRecentMenuByIdOnly(item) == StrictEq(Get(item, "id"), RecentMenuId)

\* the predicate handed to fileMenu.find
IsRecentMenu(item) ==
    /\ StrictEq(Get(item, "id"), RecentMenuId)
    /\ StrictEq(Get(item, "label"), RecentMenuLabel)

\* fileMenu.find(...): the first match, undefined when there is none; reading
\* item.id of a null element throws before a later element is looked at.
RECURSIVE Find(_, _)
Find(arr, i) ==
    IF i > Len(arr) THEN Return(Undefined)
    ELSE IF IsNullish(arr[i]) THEN Throw
    ELSE IF IsRecentMenu(arr[i]) THEN Return(arr[i])
    ELSE Find(arr, i + 1)

\* .filter((item) => item.id === 'openRecentFolder')
IsOpenRecentFolder(item) == StrictEq(Get(item, "id"), OpenRecentFolderId)

\* .filter((item) => item.uri && typeof item.uri === "object")
HasObjectUri(item) ==
    /\ Truthy(Get(item, "uri"))
    /\ TypeOf(Get(item, "uri")) = "object"

\* item.label.split('/').pop() || ''  (for a label that is a string)
LabelOf(item) == Str(OrEmpty(Pop(Split(Get(item, "label").s, "/"))))

\* the body of .map(...)
ToRecentProject(item) ==
    LET uri == Get(item, "uri")
        filePath == Get(uri, "path")
    IN  [uri |-> Get(uri, "path"), label |-> LabelOf(item), path |-> filePath]

\* the chain .filter(...).filter(...).map(...) over submenu.items
ExtractItems(items) ==
    IF items.t # "array" THEN Throw                       \* .filter is not a function
    ELSE IF \E i \in 1..Len(items.a) : IsNullish(items.a[i])
    THEN Throw                                            \* item.id of null
    ELSE LET folders == SelectSeq(items.a, IsOpenRecentFolder)
             withUri == SelectSeq(folders, HasObjectUri)
         IN  IF \E i \in 1..Len(withUri) : Get(withUri[i], "label").t # "string"
             THEN Throw                                   \* item.label.split
             ELSE Return([i \in 1..Len(withUri) |-> ToRecentProject(withUri[i])])

\* the try block of getRecentProjects
getRecentProjectsTry(f) ==
    IF ~existsSync(f) THEN Return(<<>>)
    ELSE
    LET parsed == ParseStorage(f) IN
    IF parsed.thrown THEN Throw
    ELSE
    LET storageData == parsed.value IN
    IF IsNullish(storageData) THEN Throw                  \* property of null
    ELSE
    LET fileMenu ==
            OptGet(OptGet(OptGet(Get(storageData, "lastKnownMenubarData"),
                                 "menus"), "File"), "items")
    IN
    IF ~Truthy(fileMenu) THEN Return(<<>>)
    ELSE IF fileMenu.t # "array" THEN Throw               \* .find is not a function
    ELSE
    LET found == Find(fileMenu.a, 1) IN
    IF found.thrown THEN Throw
    ELSE
    LET recentMenuItem == found.value IN
    IF ~Truthy(recentMenuItem)
       \/ ~Truthy(OptGet(Get(recentMenuItem, "submenu"), "items"))
    THEN Return(<<>>)
    ELSE ExtractItems(Get(Get(recentMenuItem, "submenu"), "items"))

\* getRecentProjects without its catch clause
getRecentProjectsNoCatch(f) == getRecentProjectsTry(f)

\* getRecentProjects(): the try block, and [] from the catch clause
getRecentProjects(f) ==
    LET r == getRecentProjectsTry(f)
    IN  IF r.thrown THEN Return(<<>>) ELSE r

-----------------------------------------------------------------------------
(* Storage files the command may find: the editor owns the file, so every  *)
(* shape of it is an input.                                                 *)

OpenRecentFileId == <<"o", "p", "e", "n", "R", "e", "c", "e", "n", "t", "F", "i", "l", "e">>
UnescapedLabel == <<"O", "p", "e", "n", " ", "R", "e", "c", "e", "n", "t">>
AlicePath == <<"/", "U", "s", "e", "r", "s", "/", "a", "l", "i", "c", "e", "/", "d", "e", "v", "/", "p", "r", "o", "j">>
AliceLabel == <<"a", "l", "i", "c", "e", "/", "d", "e", "v", "/", "p", "r", "o", "j">>
FileScheme == <<"f", "i", "l", "e">>
UriString == <<"f", "i", "l", "e", ":", "/", "/", "/", "b">>
PathB == <<"/", "b">>

\* uri: { $mid, path, scheme }
Uri(path) == Obj(<<KV("$mid", Num(1)), KV("path", path), KV("scheme", Str(FileScheme))>>)

\* a MenuItem with id, label and uri
Entry(id, label, uri) == Obj(<<KV("id", Str(id)), KV("label", label), KV("uri", uri)>>)

\* a MenuItem without a label field
EntryNoLabel(id, uri) == Obj(<<KV("id", Str(id)), KV("uri", uri)>>)

\* a MenuItem without a uri field
EntryNoUri(id, label) == Obj(<<KV("id", Str(id)), KV("label", label)>>)

\* recent-folder entries of the shape the editor writes
ValidEntries ==
    { Entry(OpenRecentFolderId, Str(AliceLabel), Uri(Str(AlicePath))),
      Entry(OpenRecentFolderId, Str(<<"b">>), Uri(Str(PathB))) }

\* entries the two filters drop
DroppedEntries ==
    { Entry(OpenRecentFileId, Str(<<"b">>), Uri(Str(PathB))),
      Entry(OpenRecentFolderId, Str(<<"b">>), Str(UriString)),
      Entry(OpenRecentFolderId, Str(<<"b">>), Null),
      EntryNoUri(OpenRecentFolderId, Str(<<"b">>)),
      EntryNoLabel(OpenRecentFileId, Uri(Str(PathB))),
      EntryNoLabel(OpenRecentFolderId, Str(UriString)),
      Str(<<"b">>) }

\* entries of an unexpected shape that pass both filters, and a null element
OddEntries ==
    { Entry(OpenRecentFolderId, Str(<<"d", "e", "v", "/">>), Uri(Str(PathB))),
      Entry(OpenRecentFolderId, Str(<<>>), Uri(Str(PathB))),
      EntryNoLabel(OpenRecentFolderId, Uri(Str(PathB))),
      Entry(OpenRecentFolderId, Num(7), Uri(Str(PathB))),
      Entry(OpenRecentFolderId, Str(<<"b">>), Obj(<<>>)),
      Entry(OpenRecentFolderId, Str(<<"b">>), Uri(Str(<<>>))),
      Entry(OpenRecentFolderId, Str(<<"b">>), Uri(Num(7))),
      Entry(OpenRecentFolderId, Str(<<"b">>), Arr(<<>>)),
      Null }

Entries == ValidEntries \cup DroppedEntries \cup OddEntries

\* the "Open Recent" MenuItem with the given submenu field
RecentMenu(submenu) ==
    Obj(<<KV("id", Str(RecentMenuId)), KV("label", Str(RecentMenuLabel)),
          KV("submenu", submenu)>>)

\* a MenuItem with a sub-menu of the given items
SubmenuItem(id, label, items) ==
    Obj(<<KV("id", Str(id)), KV("label", Str(label)),
          KV("submenu", Obj(<<KV("items", items)>>))>>)

\* { lastKnownMenubarData: { menus: { File: { items } } } }
Storage(items) ==
    Obj(<<KV("lastKnownMenubarData",
             Obj(<<KV("menus", Obj(<<KV("File", Obj(<<KV("items", items)>>))>>))>>))>>)

\* File.items around a recent submenu: alone, after other items and before a
\* second recent menu, under an unescaped label, before and after a null.
FileItemsAround(sub) ==
    { <<SubmenuItem(RecentMenuId, RecentMenuLabel, sub)>>,
      <<Str(<<"b">>),
        SubmenuItem(OpenRecentFolderId, RecentMenuLabel, Arr(<<CHOOSE e \in ValidEntries : TRUE>>)),
        SubmenuItem(RecentMenuId, RecentMenuLabel, sub),
        SubmenuItem(RecentMenuId, RecentMenuLabel, Arr(<<>>))>>,
      <<SubmenuItem(RecentMenuId, UnescapedLabel, sub)>>,
      <<SubmenuItem(RecentMenuId, RecentMenuLabel, sub), Null>>,
      <<Null, SubmenuItem(RecentMenuId, RecentMenuLabel, sub)>> }

\* documents in which the navigation stops short of a sequence of submenu items
BrokenDocs ==
    { Null, Num(7), Str(<<"b">>), Arr(<<>>), Obj(<<>>),
      Obj(<<KV("lastKnownMenubarData", Null)>>),
      Obj(<<KV("lastKnownMenubarData", Str(<<"b">>))>>),
      Obj(<<KV("lastKnownMenubarData", Obj(<<KV("menus", Null)>>))>>),
      Obj(<<KV("lastKnownMenubarData", Obj(<<KV("menus", Obj(<<>>))>>))>>),
      Obj(<<KV("lastKnownMenubarData",
               Obj(<<KV("menus", Obj(<<KV("File", Num(7))>>))>>))>>),
      Obj(<<KV("lastKnownMenubarData",
               Obj(<<KV("menus", Obj(<<KV("File", Obj(<<>>))>>))>>))>>),
      Storage(Null), Storage(Num(0)), Storage(Num(7)), Storage(Str(<<>>)),
      Storage(Str(<<"b">>)), Storage(Obj(<<>>)), Storage(Arr(<<>>)),
      Storage(Arr(<<Null>>)), Storage(Arr(<<Str(<<"b">>), Num(7)>>)),
      Storage(Arr(<<EntryNoUri(RecentMenuId, Str(RecentMenuLabel))>>)),
      Storage(Arr(<<EntryNoUri(OpenRecentFolderId, Str(RecentMenuLabel))>>)),
      Storage(Arr(<<RecentMenu(Null)>>)),
      Storage(Arr(<<RecentMenu(Str(<<"b">>))>>)),
      Storage(Arr(<<RecentMenu(Obj(<<>>))>>)),
      Storage(Arr(<<RecentMenu(Obj(<<KV("items", Null)>>))>>)),
      Storage(Arr(<<RecentMenu(Obj(<<KV("items", Str(<<"b">>))>>))>>)),
      Storage(Arr(<<RecentMenu(Obj(<<KV("items", Obj(<<>>))>>))>>)) }

JsonFile(doc) == [kind |-> "json", doc |-> doc]
AbsentFile    == [kind |-> "absent", doc |-> Undefined]
UnreadableFile == [kind |-> "unreadable", doc |-> Undefined]
MalformedFile == [kind |-> "malformed", doc |-> Undefined]

\* f is a parsed document whose recent submenu holds k of the given entries,
\* inside one of the File.items of FileItemsAround
IsMenuFile(f, entries, k) ==
    \E sub \in [1..k -> entries] :
        \E items \in FileItemsAround(Arr(sub)) : f = JsonFile(Storage(Arr(items)))

\* every storage file of the model: absent, unreadable, not JSON, a document
\* whose navigation stops short, a document with a recent submenu
IsStorageFile(f) ==
    \/ f \in {AbsentFile, UnreadableFile, MalformedFile}
    \/ \E d \in BrokenDocs : f = JsonFile(d)
    \/ \E k \in 0..MaxItems : IsMenuFile(f, Entries, k)

\* the storage file with the given recent submenu, as the editor writes it
MenuFile(sub) ==
    JsonFile(Storage(Arr(<<SubmenuItem(RecentMenuId, RecentMenuLabel, Arr(sub))>>)))

\* the i-th folder of a recent submenu in which two folders alternate
CommandEntry(i) ==
    IF i % 2 = 1 THEN Entry(OpenRecentFolderId, Str(AliceLabel), Uri(Str(AlicePath)))
    ELSE Entry(OpenRecentFolderId, Str(<<"b">>), Uri(Str(PathB)))

\* storage files for the runs of the whole command: absent, unparseable,
\* without menu data, with an entry that makes the extraction throw, with an
\* entry without uri.path, with a dropped entry, and with a recent submenu of
\* up to MaxItems folders
IsCommandFile(f) ==
    \/ f \in { AbsentFile, MalformedFile, JsonFile(Obj(<<>>)),
                MenuFile(<<EntryNoLabel(OpenRecentFolderId, Uri(Str(PathB)))>>),
                MenuFile(<<Entry(OpenRecentFolderId, Str(<<"d", "e", "v", "/">>), Obj(<<>>))>>),
                MenuFile(<<Entry(OpenRecentFolderId, Str(<<"b">>), Str(UriString)),
                           CommandEntry(2)>>) }
    \/ \E k \in 0..MaxItems : f = MenuFile([i \in 1..k |-> CommandEntry(i)])

-----------------------------------------------------------------------------
(* The command *)

NoCopy == [row |-> 0, content |-> Undefined]

InitState ==
    /\ recentProjects = <<>>
    /\ isLoading = TRUE
    /\ commits = 1
    /\ effectRuns = 0
    /\ crashed = FALSE
    /\ launches = <<>>
    /\ windowOpen = TRUE
    /\ clipboard = NoCopy

Init == IsCommandFile(file) /\ InitState

ExtractInit == IsStorageFile(file) /\ InitState

\* a useEffect without its dependency array: the effect runs after every commit
MountEffectEveryCommit ==
    /\ effectRuns' = effectRuns + 1
    /\ recentProjects' = getRecentProjects(file).value
    /\ isLoading' = FALSE
    /\ commits' = commits + 1
    /\ UNCHANGED <<file, crashed, launches, windowOpen, clipboard>>

\* useEffect(() => { ... }, []): runs once, after the first render.  The two
\* setters are called in one effect, which React commits as one update.
MountEffect ==
    /\ effectRuns = 0
    /\ effectRuns' = 1
    /\ LET projects == getRecentProjects(file)
       IN  IF projects.thrown
           THEN /\ crashed' = TRUE
                /\ UNCHANGED <<recentProjects, isLoading, commits>>
           ELSE /\ recentProjects' = projects.value
                /\ isLoading' = FALSE
                /\ commits' = commits + 1
                /\ crashed' = crashed
    /\ UNCHANGED <<file, launches, windowOpen, clipboard>>

\* an empty view that does not look at the loading flag
RenderEmptyWhileLoading(projects, loading) ==
    [ isLoading |-> loading,
      emptyView |-> Len(projects) = 0,
      items     |-> [index \in 1..Len(projects) |->
                       [ title       |-> projects[index].label,
                         subtitle    |-> projects[index].path,
                         onAction    |-> projects[index].path,
                         copyContent |-> projects[index].path ]] ]

\* the JSX returned by Command: <List.EmptyView> or one <List.Item> per project
Render(projects, loading) ==
    [ isLoading |-> loading,
      emptyView |-> Len(projects) = 0 /\ ~loading,
      items     |-> [index \in 1..Len(projects) |->
                       [ title       |-> projects[index].label,
                         subtitle    |-> projects[index].path,
                         onAction    |-> projects[index].path,
                         copyContent |-> projects[index].path ]] ]

View == Render(recentProjects, isLoading)

\* a call of openProjectInWindsurf that starts by setting the loading flag
OpenActionSetsLoading ==
    /\ windowOpen
    /\ Len(launches) < MaxLaunches
    /\ \E i \in 1..Len(View.items) :
         launches' = Append(launches,
                            [ row |-> i, path |-> View.items[i].onAction, pc |-> "exec",
                              exec |-> "pending", events |-> <<>>, rejected |-> FALSE ])
    /\ isLoading' = TRUE
    /\ UNCHANGED <<file, recentProjects, commits, effectRuns, crashed,
                   windowOpen, clipboard>>

\* onAction={() => openProjectInWindsurf(project.path)}: the call runs up to
\* its first await, with the external command started
OpenAction ==
    /\ windowOpen
    /\ Len(launches) < MaxLaunches
    /\ \E i \in 1..Len(View.items) :
         launches' = Append(launches,
                            [ row |-> i, path |-> View.items[i].onAction, pc |-> "exec",
                              exec |-> "pending", events |-> <<>>, rejected |-> FALSE ])
    /\ UNCHANGED <<file, recentProjects, isLoading, commits, effectRuns, crashed,
                   windowOpen, clipboard>>

\* <Action.CopyToClipboard content={project.path} />
CopyAction ==
    /\ windowOpen
    /\ \E i \in 1..Len(View.items) :
         clipboard' = [row |-> i, content |-> View.items[i].copyContent]
    /\ UNCHANGED <<file, recentProjects, isLoading, commits, effectRuns, crashed,
                   launches, windowOpen>>

\* execAsync resolves: showToast({ style: Success }) is called
ExecResolves ==
    /\ \E l \in 1..Len(launches) :
         /\ launches[l].pc = "exec"
         /\ launches' = [launches EXCEPT ![l].exec = "ok",
                                         ![l].events = Append(@, "toast.success"),
                                         ![l].pc = "toastSuccess"]
    /\ UNCHANGED <<file, recentProjects, isLoading, commits, effectRuns, crashed,
                   windowOpen, clipboard>>

\* execAsync rejects (the command exits non-zero or cannot be started): the
\* catch clause logs and calls showToast({ style: Failure })
ExecRejects ==
    /\ \E l \in 1..Len(launches) :
         /\ launches[l].pc = "exec"
         /\ launches' = [launches EXCEPT ![l].exec = "failed",
                                         ![l].events = Append(@, "toast.failure"),
                                         ![l].pc = "toastFailure"]
    /\ UNCHANGED <<file, recentProjects, isLoading, commits, effectRuns, crashed,
                   windowOpen, clipboard>>

\* the success toast's promise resolves: closeMainWindow() is called
SuccessToastResolves ==
    /\ \E l \in 1..Len(launches) :
         /\ launches[l].pc = "toastSuccess"
         /\ launches' = [launches EXCEPT ![l].events = Append(@, "closeMainWindow"),
                                         ![l].pc = "close"]
    /\ windowOpen' = FALSE
    /\ UNCHANGED <<file, recentProjects, isLoading, commits, effectRuns, crashed,
                   clipboard>>

\* the success toast's promise rejects (line 51 is inside the try block): the
\* catch clause logs and calls showToast({ style: Failure })
SuccessToastRejects ==
    /\ \E l \in 1..Len(launches) :
         /\ launches[l].pc = "toastSuccess"
         /\ launches' = [launches EXCEPT ![l].events = Append(@, "toast.failure"),
                                         ![l].pc = "toastFailure"]
    /\ UNCHANGED <<file, recentProjects, isLoading, commits, effectRuns, crashed,
                   windowOpen, clipboard>>

\* closeMainWindow's promise rejects (line 57 is inside the try block): the
\* catch clause logs and calls showToast({ style: Failure })
CloseRejects ==
    /\ \E l \in 1..Len(launches) :
         /\ launches[l].pc = "close"
         /\ launches' = [launches EXCEPT ![l].events = Append(@, "toast.failure"),
                                         ![l].pc = "toastFailure"]
    /\ UNCHANGED <<file, recentProjects, isLoading, commits, effectRuns, crashed,
                   windowOpen, clipboard>>

\* closeMainWindow's promise resolves: the call returns
CloseResolves ==
    /\ \E l \in 1..Len(launches) :
         /\ launches[l].pc = "close"
         /\ launches' = [launches EXCEPT ![l].pc = "done"]
    /\ UNCHANGED <<file, recentProjects, isLoading, commits, effectRuns, crashed,
                   windowOpen, clipboard>>

\* the failure toast's promise resolves: the call returns
FailureToastResolves ==
    /\ \E l \in 1..Len(launches) :
         /\ launches[l].pc = "toastFailure"
         /\ launches' = [launches EXCEPT ![l].pc = "done"]
    /\ UNCHANGED <<file, recentProjects, isLoading, commits, effectRuns, crashed,
                   windowOpen, clipboard>>

\* the failure toast's promise rejects: nothing catches it inside the catch
\* clause, and the promise of the call rejects
FailureToastRejects ==
    /\ \E l \in 1..Len(launches) :
         /\ launches[l].pc = "toastFailure"
         /\ launches' = [launches EXCEPT ![l].pc = "done", ![l].rejected = TRUE]
    /\ UNCHANGED <<file, recentProjects, isLoading, commits, effectRuns, crashed,
                   windowOpen, clipboard>>

Next ==
    \/ MountEffect
    \/ OpenAction
    \/ CopyAction
    \/ ExecResolves
    \/ ExecRejects
    \/ SuccessToastResolves
    \/ SuccessToastRejects
    \/ CloseResolves
    \/ CloseRejects
    \/ FailureToastResolves
    \/ FailureToastRejects

\* the whole command, on the storage files of IsCommandFile
Spec == Init /\ [][Next]_vars

\* the step that runs the mount effect: of the steps of Next, MountEffect's
EffectStep == effectRuns = 0 /\ effectRuns' = 1

\* React runs the effect of a mounted component: fairness of the mount effect
LiveSpec == Spec /\ WF_effectRuns(EffectStep)

\* getRecentProjects applied, by the mount effect, to every file of IsStorageFile
ExtractNext == MountEffect

ExtractSpec == ExtractInit /\ [][ExtractNext]_vars

-----------------------------------------------------------------------------
(* Vocabulary of the properties, stated on the document itself *)

\* object v has a field named k
Present(v, k) == v.t = "object" /\ \E i \in 1..Len(v.o) : v.o[i].k = k

\* the value of field k of an object that has it (JSON.parse keeps the last)
Field(v, k) ==
    v.o[CHOOSE i \in 1..Len(v.o) :
          v.o[i].k = k /\ \A j \in (i + 1)..Len(v.o) : v.o[j].k # k].v

\* e is an element with the id and the label of the "Open Recent" menu
MatchesRecentMenu(e) ==
    /\ Present(e, "id") /\ Field(e, "id") = Str(RecentMenuId)
    /\ Present(e, "label") /\ Field(e, "label") = Str(RecentMenuLabel)

\* lastKnownMenubarData.menus.File.items is there, as a value of any type
HasFileItems(doc) ==
    /\ Present(doc, "lastKnownMenubarData")
    /\ Present(Field(doc, "lastKnownMenubarData"), "menus")
    /\ Present(Field(Field(doc, "lastKnownMenubarData"), "menus"), "File")
    /\ Present(Field(Field(Field(doc, "lastKnownMenubarData"), "menus"), "File"), "items")

FileItems(doc) ==
    Field(Field(Field(Field(doc, "lastKnownMenubarData"), "menus"), "File"), "items")

\* the first element of File.items that matches the recent menu
FirstRecentMenu(doc) ==
    LET items == FileItems(doc).a
        first == CHOOSE i \in 1..Len(items) :
                    /\ MatchesRecentMenu(items[i])
                    /\ \A j \in 1..(i - 1) : ~MatchesRecentMenu(items[j])
    IN  items[first]

\* the navigation to the recent submenu's items stops short
NavigationFails(doc) ==
    \/ ~HasFileItems(doc)
    \/ FileItems(doc).t # "array"
    \/ ~\E i \in 1..Len(FileItems(doc).a) : MatchesRecentMenu(FileItems(doc).a[i])
    \/ ~Present(FirstRecentMenu(doc), "submenu")
    \/ ~Present(Field(FirstRecentMenu(doc), "submenu"), "items")

\* the recent submenu's items, once the navigation has reached them
RecentItems(doc) == Field(Field(FirstRecentMenu(doc), "submenu"), "items")

\* the navigation reaches a sequence of submenu items
NavigationSucceeds(doc) == ~NavigationFails(doc) /\ RecentItems(doc).t = "array"

\* e is a recent-folder entry whose uri is present and structured
IsFolderWithUri(e) ==
    /\ Present(e, "id") /\ Field(e, "id") = Str(OpenRecentFolderId)
    /\ Present(e, "uri") /\ Field(e, "uri").t \in {"object", "array"}

\* the entries of the recent submenu that the result is to hold, in order
Surviving(doc) == SelectSeq(RecentItems(doc).a, IsFolderWithUri)

\* uri.path of an entry, undefined when the uri has no such field
UriPathOf(e) ==
    IF Present(Field(e, "uri"), "path") THEN Field(Field(e, "uri"), "path")
    ELSE Undefined

\* lab is what follows the last "/" of s (all of s when it has none)
IsLastSegment(lab, s) ==
    \E k \in 0..Len(s) :
        /\ lab = SubSeq(s, k + 1, Len(s))
        /\ k = 0 \/ s[k] = "/"
        /\ \A j \in (k + 1)..Len(s) : s[j] # "/"

\* the mount effect has called getRecentProjects on a parsed document
Extracted == effectRuns = 1 /\ file.kind = "json"

Range(s) == { s[i] : i \in 1..Len(s) }

-----------------------------------------------------------------------------
(* Properties *)

\* C1: getRecentProjects is total: whatever the storage file holds, no
\* exception escapes it, and the shell receives a sequence of RecentProject
\* records (uri, label, path) with a string label.
C1_Total ==
    /\ ~crashed
    /\ ~getRecentProjects(file).thrown
    /\ effectRuns = 1 =>
         /\ ~isLoading
         /\ \A i \in 1..Len(recentProjects) :
              /\ DOMAIN recentProjects[i] = {"uri", "label", "path"}
              /\ recentProjects[i].label.t = "string"

\* C1 witness: an exception was raised inside the try block (a null element,
\* a label that is no string, unparseable text) and the call still returned.
C1_Witness ==
    /\ effectRuns = 1
    /\ getRecentProjectsTry(file).thrown
    /\ file.kind = "json"
    /\ NavigationSucceeds(file.doc)
    /\ ~crashed /\ ~isLoading /\ recentProjects = <<>>

\* C2: when the navigation stops short (a field of the chain absent, items no
\* sequence, no element with both literals, or the first such element without
\* submenu.items) the result is the empty sequence.
C2_NavigationFailureEmpty ==
    (Extracted /\ NavigationFails(file.doc)) =>
        (recentProjects = <<>> /\ ~isLoading /\ ~crashed)

\* C2 witness: File.items is a non-empty sequence whose recent menu carries
\* another label over a submenu of folder entries, and the result is empty.
C2_Witness ==
    /\ Extracted
    /\ NavigationFails(file.doc)
    /\ HasFileItems(file.doc)
    /\ FileItems(file.doc).t = "array"
    /\ \E i \in 1..Len(FileItems(file.doc).a) :
         LET e == FileItems(file.doc).a[i]
         IN  /\ Present(e, "label") /\ Field(e, "label") = Str(UnescapedLabel)
             /\ Present(e, "submenu")
             /\ Len(Field(Field(e, "submenu"), "items").a) = MaxItems
    /\ recentProjects = <<>>

\* C3 (as claimed): when the navigation succeeds the result corresponds one
\* to one, in order, to the submenu entries with id "openRecentFolder" and a
\* structured uri; its length is their number.
C3_OneToOne ==
    (Extracted /\ NavigationSucceeds(file.doc)) =>
        /\ Len(recentProjects) = Len(Surviving(file.doc))
        /\ \A i \in 1..Len(recentProjects) :
             recentProjects[i].path = UriPathOf(Surviving(file.doc)[i])

\* C4: every RecentProject produced has path and uri equal to its entry's
\* uri.path unchanged, and as label the last "/"-segment of the entry's label
\* (all of a label without "/", '' for a label ending in "/").
C4_PathAndLabel ==
    (Extracted /\ NavigationSucceeds(file.doc) /\ recentProjects # <<>>) =>
        /\ Len(recentProjects) = Len(Surviving(file.doc))
        /\ \A i \in 1..Len(recentProjects) :
             LET e == Surviving(file.doc)[i]
             IN  /\ recentProjects[i].path = UriPathOf(e)
                 /\ recentProjects[i].uri = UriPathOf(e)
                 /\ recentProjects[i].label.t = "string"
                 /\ IsLastSegment(recentProjects[i].label.s, Field(e, "label").s)
                 /\ Field(e, "label") = Str(AliceLabel) /\ UriPathOf(e) = Str(AlicePath)
                      => recentProjects[i] = [ uri   |-> Str(AlicePath),
                                               label |-> Str(<<"p", "r", "o", "j">>),
                                               path  |-> Str(AlicePath) ]

\* C4 witness: a result holding the label "proj" cut from "alice/dev/proj"
\* and the label '' cut from "dev/".
C4_Witness ==
    /\ Extracted
    /\ NavigationSucceeds(file.doc)
    /\ Len(recentProjects) = 2
    /\ Field(Surviving(file.doc)[1], "label") = Str(AliceLabel)
    /\ recentProjects[1].label = Str(<<"p", "r", "o", "j">>)
    /\ Field(Surviving(file.doc)[2], "label") = Str(<<"d", "e", "v", "/">>)
    /\ recentProjects[2].label = Str(<<>>)

\* C5 (as claimed): every RecentProject of the list has a path that is a
\* non-empty string.
C5_PathNonEmptyString ==
    \A i \in 1..Len(recentProjects) :
        /\ recentProjects[i].path.t = "string"
        /\ recentProjects[i].path.s # <<>>

\* C6 (as claimed): in a submenu of objects whose surviving entries have a
\* string label or none, every surviving entry produces a RecentProject, and
\* those with an empty or absent label get the label ''.
C6_EmptyOrAbsentLabel ==
    (/\ Extracted
     /\ NavigationSucceeds(file.doc)
     /\ \A i \in 1..Len(FileItems(file.doc).a) : FileItems(file.doc).a[i].t = "object"
     /\ \A i \in 1..Len(RecentItems(file.doc).a) : RecentItems(file.doc).a[i].t = "object"
     /\ \A i \in 1..Len(Surviving(file.doc)) :
          LET e == Surviving(file.doc)[i]
          IN  Present(e, "label") => Field(e, "label").t = "string")
    =>
        /\ Len(recentProjects) = Len(Surviving(file.doc))
        /\ \A i \in 1..Len(recentProjects) :
             LET e == Surviving(file.doc)[i]
             IN  (~Present(e, "label") \/ Field(e, "label") = Str(<<>>))
                     => recentProjects[i].label = Str(<<>>)

\* C7: the shell starts Loading with an empty list, runs the effect once,
\* reaches Ready with the extraction result, never goes back to Loading, and
\* its state takes two values in a run.
C7_LoadingThenReady ==
    /\ (isLoading = TRUE /\ recentProjects = <<>> /\ commits = 1 /\ effectRuns = 0)
    /\ [][/\ effectRuns' <= 1
          /\ commits' <= 2
          /\ isLoading' => (recentProjects' = <<>> /\ commits' = 1)
          /\ ~isLoading' =>
                /\ recentProjects' = getRecentProjects(file').value
                /\ commits' = 2
                /\ effectRuns' = 1
          /\ ~isLoading => ~isLoading']_vars
    /\ <>[](~isLoading)

\* C7 witness: Ready, after one run of the effect, with two projects listed
\* and a launch made since.
C7_Witness ==
    /\ ~isLoading
    /\ effectRuns = 1
    /\ commits = 2
    /\ Len(recentProjects) = 2
    /\ Len(launches) = 1

\* C8: the empty view is shown exactly when Ready with an empty list;
\* otherwise there is one row per project, in order, whose open and copy
\* actions carry that project's path.  No file gives the empty view; two
\* valid folder entries give their two rows in order.
C8_RenderFollowsState ==
    /\ View.emptyView <=> (~isLoading /\ recentProjects = <<>>)
    /\ View.emptyView => View.items = <<>>
    /\ Len(View.items) = Len(recentProjects)
    /\ \A i \in 1..Len(recentProjects) :
         /\ View.items[i].onAction = recentProjects[i].path
         /\ View.items[i].copyContent = recentProjects[i].path
         /\ View.items[i].title = recentProjects[i].label
    /\ \A l \in 1..Len(launches) :
         launches[l].path = recentProjects[launches[l].row].path
    /\ clipboard.row # 0 => clipboard.content = recentProjects[clipboard.row].path
    /\ (effectRuns = 1 /\ file.kind = "absent") => (View.emptyView /\ View.items = <<>>)
    /\ \A e1, e2 \in ValidEntries :
         (effectRuns = 1 /\ file.kind = "json" /\ NavigationSucceeds(file.doc)
            /\ RecentItems(file.doc).a = <<e1, e2>>)
         => /\ ~View.emptyView
            /\ Len(View.items) = 2
            /\ View.items[1].onAction = UriPathOf(e1)
            /\ View.items[2].onAction = UriPathOf(e2)

\* C8 witness: two different valid entries rendered as two rows; the second
\* row opened and the first row's path copied.
C8_Witness ==
    /\ effectRuns = 1
    /\ file.kind = "json"
    /\ NavigationSucceeds(file.doc)
    /\ Len(RecentItems(file.doc).a) = 2
    /\ Len(View.items) = 2
    /\ View.items[1].onAction # View.items[2].onAction
    /\ Len(launches) = 1 /\ launches[1].row = 2
    /\ clipboard.row = 1

\* C9 (as claimed): a call of openProjectInWindsurf never rejects; it closes
\* the window only after its own success toast; a call whose command failed
\* shows the failure toast and closes nothing; a call whose command succeeded
\* shows the success toast and, once finished, has closed the window after it.
C9_LaunchOutcome ==
    \A l \in 1..Len(launches) :
        LET c == launches[l] IN
        /\ ~c.rejected
        /\ \A j \in 1..Len(c.events) :
             c.events[j] = "closeMainWindow"
                => \E k \in 1..(j - 1) : c.events[k] = "toast.success"
        /\ c.exec = "failed" =>
             /\ "toast.failure" \in Range(c.events)
             /\ "closeMainWindow" \notin Range(c.events)
        /\ c.exec = "ok" => "toast.success" \in Range(c.events)
        /\ (c.exec = "ok" /\ c.pc = "done") =>
             /\ "closeMainWindow" \in Range(c.events)
             /\ ~windowOpen

\* C10: no step writes the storage file, and once Ready no step (open, copy,
\* or a step of a launch) changes the project list or the loading flag.
C10_LaunchMutatesNothing ==
    [][/\ file' = file
       /\ ~isLoading => (recentProjects' = recentProjects /\ isLoading' = isLoading)]_vars

\* C10 witness: two overlapping launches of the same row, one failed and one
\* succeeded, and a copy, with the list of two projects still in place.
C10_Witness ==
    /\ ~isLoading
    /\ Len(recentProjects) = 2
    /\ Len(launches) = 2
    /\ launches[1].row = launches[2].row
    /\ launches[1].exec = "ok" /\ launches[1].pc = "done"
    /\ launches[2].exec = "failed" /\ launches[2].pc = "done"
    /\ clipboard.row = 2

====
